---- MODULE Spec2Model ----
(***************************************************************************)
(* Model of the LanceDB knowledge-base scripts (skills/lance/scripts):     *)
(*   - chunk_text (ingest.py), run step by step (one loop iteration per    *)
(*     action) and as an operator used by ingest_document;                 *)
(*   - the knowledge store facade: init, ingest, delete, delete-id,        *)
(*     reindex, versions, restore, stats, clear (manage.py, ingest.py),    *)
(*     search (search.py), view (view.py) and setup (setup.py).            *)
(* Texts are sequences of one-character strings, so that str.split,        *)
(* str.strip and " ".join are computed, not assumed.                       *)
(***************************************************************************)
EXTENDS Integers, Sequences, FiniteSets, TLC

\* ------------------------------------------------------------------ bounds
\* longest text (in characters) drawn for the chunker and for ingest
MaxTextLen == 6
\* largest max_words / chunk_size drawn; overlap is drawn from 0..MaxParam+1
MaxParam == 4
\* cap on the length of the chunk list (only a diverging call reaches it)
MaxChunks == 8
\* cap on the store's version counter
MaxVersion == 3
\* cap on the number of ids uuid4 hands out
MaxIds == 2

\* ------------------------------------------------------------ text helpers
Space == " "
Letters == {"a", "b"}
Alphabet == Letters \cup {Space}

SeqsUpTo(S, n) == UNION {[1..k -> S] : k \in 0..n}

\* the text of the spec's chunk example, "a b c d e f"
ExampleText == <<"a", " ", "b", " ", "c", " ", "d", " ", "e", " ", "f">>

Texts == SeqsUpTo(Alphabet, MaxTextLen) \cup {ExampleText}

IsSpace(c) == c = Space

\* str.split(): maximal runs of non-whitespace characters, in order
RECURSIVE split_from(_, _, _, _)
split_from(t, k, cur, acc) ==
    IF k > Len(t)
    THEN IF cur = <<>> THEN acc ELSE Append(acc, cur)
    ELSE IF IsSpace(t[k])
         THEN split_from(t, k + 1, <<>>, IF cur = <<>> THEN acc ELSE Append(acc, cur))
         ELSE split_from(t, k + 1, Append(cur, t[k]), acc)

split(t) == split_from(t, 1, <<>>, <<>>)

\* " ".join(ws)
RECURSIVE join(_)
join(ws) ==
    IF ws = <<>> THEN <<>>
    ELSE IF Len(ws) = 1 THEN ws[1]
    ELSE ws[1] \o <<Space>> \o join(Tail(ws))

\* str.strip(): drop leading and trailing whitespace
RECURSIVE lstrip(_)
lstrip(t) == IF t # <<>> /\ IsSpace(t[1]) THEN lstrip(Tail(t)) ELSE t

RECURSIVE rstrip(_)
rstrip(t) ==
    IF t # <<>> /\ IsSpace(t[Len(t)]) THEN rstrip(SubSeq(t, 1, Len(t) - 1)) ELSE t

strip(t) == rstrip(lstrip(t))

\* Python slice s[lo:hi] (step 1): negative bounds count from the end, and
\* both bounds are clamped to 0..len(s)
slice_bound(x, n) == IF x < 0 THEN (IF x + n < 0 THEN 0 ELSE x + n)
                     ELSE IF x > n THEN n ELSE x

py_slice(s, lo, hi) ==
    LET a == slice_bound(lo, Len(s))
        b == slice_bound(hi, Len(s))
    IN IF a < b THEN SubSeq(s, a + 1, b) ELSE <<>>

\* ---------------------------------------------------------------- chunk_text
\* chunk_words = words[i : i + max_words]
chunk_words_mut(ws, at, m) == py_slice(ws, at, at + m + 1)
chunk_words(ws, at, m) == py_slice(ws, at, at + m)

\* if chunk.strip(): chunks.append(chunk.strip())
append_chunk(cs, cw) ==
    LET chunk == join(cw)
    IN IF strip(chunk) # <<>> THEN Append(cs, strip(chunk)) ELSE cs

\* i += max_words - overlap
advance_mut(at, m, o) == at + m - o - 1
advance(at, m, o) == at + m - o

\* if len(chunk_words) < max_words: break
loop_breaks_mut(cw, m) == Len(cw) <= m
loop_breaks(cw, m) == Len(cw) < m

\* return chunks if chunks else [text.strip()] if text.strip() else []
chunk_result_mut(cs, t) == IF cs # <<>> THEN cs ELSE <<strip(t)>>
chunk_result(cs, t) ==
    IF cs # <<>> THEN cs ELSE IF strip(t) # <<>> THEN <<strip(t)>> ELSE <<>>

\* the whole loop, for callers; fuel bounds the number of iterations and
\* "returned" tells whether the loop ended within it
RECURSIVE chunk_loop(_, _, _, _, _, _)
chunk_loop(ws, at, cs, m, o, fuel) ==
    IF ~(at < Len(ws)) THEN [chunks |-> cs, returned |-> TRUE]
    ELSE IF fuel = 0 THEN [chunks |-> cs, returned |-> FALSE]
    ELSE LET cw == chunk_words(ws, at, m)
             cs2 == append_chunk(cs, cw)
         IN IF loop_breaks(cw, m)
            THEN [chunks |-> cs2, returned |-> TRUE]
            ELSE chunk_loop(ws, advance(at, m, o), cs2, m, o, fuel - 1)

chunk_returns(t, m, o) == chunk_loop(split(t), 0, <<>>, m, o, MaxChunks).returned

chunk_text(t, m, o) ==
    chunk_result(chunk_loop(split(t), 0, <<>>, m, o, MaxChunks).chunks, t)

\* ------------------------------------------------------ the store (LanceDB)
\* source_file arguments and the ingest texts; a name is the sequence of its
\* pieces, the quote character "'" being a piece of its own
Quote == "'"
Files == {<<"doc.txt">>, <<"b.txt">>}
\* it's.txt
QuotedName == <<"it", Quote, "s.txt">>
\* x' OR '1'='1
InjectName == <<"x", Quote, " OR ", Quote, "1", Quote, "=", Quote, "1">>
\* the names delete is invoked with
DeleteTargets == Files \cup {QuotedName, InjectName}
\* "", " ", "a", "a a"
IngestTexts == {<<>>, <<Space>>, <<"a">>, <<"a", Space, "a">>}
\* (chunk_size, overlap) pairs drawn for ingest_document
IngestParams == {<<1, 0>>, <<2, 1>>}
\* the (text, parameters) calls drawn: those whose chunking returns (a call
\* whose chunking never returns has no outcome), the second pair only for a
\* text it chunks differently from the first
IngestCalls ==
    {c \in IngestTexts \X IngestParams :
        /\ chunk_returns(c[1], c[2][1], c[2][2])
        /\ \/ c[2] = <<1, 0>>
           \/ chunk_text(c[1], c[2][1], c[2][2]) # chunk_text(c[1], 1, 0)}

\* what can go wrong outside the scripts during one invocation:
\*   "provider": creating the embedding function / reading its dimensions raises
\*   "embed":    the embedding call made while adding records raises
\*   "engine":   lancedb.connect / list_tables raises
\*   "probe":    only the existing-table probe of init raises
\*   "fts":      create_fts_index raises
\*   "dim":      EMBEDDING_DIMENSIONS is set to a value int() rejects
\*   "mkdir":    creating the .lance directory raises (it does not exist yet)
\*   "breakdown": the per-source query of stats raises
Faults == {"none", "provider", "embed", "engine", "probe", "fts", "dim",
           "mkdir", "breakdown"}
\* the failures each script can meet; without a credential init and ingest
\* return before any provider or engine call (init: after its probe)
InitFaults(key) == IF key THEN {"none", "provider", "engine", "probe", "fts", "dim"}
                   ELSE {"none", "probe", "dim"}
IngestFaults(key) == IF key THEN {"none", "provider", "embed", "engine"}
                     ELSE {"none"}
\* mkdir(parents=True, exist_ok=True) can only fail while the directory is absent
DirFaults(d) == IF d.lance_dir THEN {} ELSE {"mkdir"}
StatsFaults == {"none", "engine", "breakdown"}
\* full-text search makes no embedding call; without a credential vector and
\* hybrid search return before any call
SearchFaults(search_type, key) ==
    IF search_type = "fts" THEN {"none", "engine"}
    ELSE IF key THEN {"none", "embed", "engine"} ELSE {"none"}
ReindexFaults == {"none", "engine", "fts"}
EngineFaults == {"none", "engine"}

\* Python None in an integer field
None == -1

\* the workspace on disk: the .lance directory, the "knowledge" table, its
\* rows, its version counter, the content of each version, its FTS index
NoStore ==
    [lance_dir |-> FALSE, knowledge |-> FALSE, rows |-> {}, version |-> 0,
     history |-> <<>>, fts |-> FALSE]

\* lance_dir.mkdir(parents=True, exist_ok=True)
mkdir(d) == [d EXCEPT !.lance_dir = TRUE]

\* every committed write is a new version holding the rows written
commit(d, newrows) ==
    [d EXCEPT !.rows = newrows, !.version = @ + 1, !.history = Append(@, newrows)]

\* db.create_table("knowledge", schema=DocumentChunk): an empty table, version 1
create_table(d) ==
    [d EXCEPT !.knowledge = TRUE, !.rows = {}, !.version = 1,
              !.history = <<{}>>, !.fts = FALSE]

\* table.add(records)
table_add(d, recs) == commit(d, d.rows \cup recs)

\* f"source_file = '{source_file}'": the name is pasted between two quotes
source_predicate(source_file) ==
    <<"source_file", " = ", Quote>> \o source_file \o <<Quote>>

\* the engine's reading of a predicate: a quote opens a string literal, the
\* next quote closes it unless it is doubled ('' is a quote inside the
\* literal); outside literals a piece is a column name, = or OR
sql_word(piece) ==
    IF piece = "source_file" THEN [kind |-> "col", val |-> <<>>]
    ELSE IF piece \in {"=", " = "} THEN [kind |-> "eq", val |-> <<>>]
    ELSE IF piece \in {"OR", " OR "} THEN [kind |-> "or", val |-> <<>>]
    ELSE [kind |-> "bad", val |-> <<>>]

RECURSIVE sql_lex(_, _, _, _, _)
sql_lex(p, k, inlit, cur, acc) ==
    IF k > Len(p)
    THEN IF inlit THEN Append(acc, [kind |-> "bad", val |-> <<>>]) ELSE acc
    ELSE IF ~inlit
    THEN IF p[k] = Quote THEN sql_lex(p, k + 1, TRUE, <<>>, acc)
         ELSE sql_lex(p, k + 1, FALSE, <<>>, Append(acc, sql_word(p[k])))
    ELSE IF p[k] # Quote THEN sql_lex(p, k + 1, TRUE, Append(cur, p[k]), acc)
    ELSE IF k < Len(p) /\ p[k + 1] = Quote
    THEN sql_lex(p, k + 2, TRUE, Append(cur, Quote), acc)
    ELSE sql_lex(p, k + 1, FALSE, <<>>, Append(acc, [kind |-> "lit", val |-> cur]))

\* operand = operand (OR operand = operand)*
sql_valid(toks) ==
    /\ Len(toks) % 4 = 3
    /\ \A j \in 1..Len(toks) :
          IF j % 4 \in {1, 3} THEN toks[j].kind \in {"col", "lit"}
          ELSE IF j % 4 = 2 THEN toks[j].kind = "eq"
          ELSE toks[j].kind = "or"

sql_value(tok, row) == IF tok.kind = "col" THEN row.source_file ELSE tok.val

sql_holds(toks, row) ==
    \E j \in 1..Len(toks) :
        j % 4 = 2 /\ sql_value(toks[j - 1], row) = sql_value(toks[j + 1], row)

\* the rows a predicate selects; ok is FALSE when the engine rejects it
sql_select(p, rows) ==
    LET toks == sql_lex(p, 1, FALSE, <<>>, <<>>)
    IN IF sql_valid(toks)
       THEN [ok |-> TRUE, rows |-> {r \in rows : sql_holds(toks, r)}]
       ELSE [ok |-> FALSE, rows |-> {}]

\* table.delete(where)
table_delete(d, matching) == commit(d, d.rows \ matching)

\* table.restore(version): a new version with the content of `version`
table_restore_mut(d, v) ==
    [d EXCEPT !.rows = d.history[v], !.version = v, !.history = SubSeq(@, 1, v)]
table_restore(d, v) == commit(d, d.history[v])

\* table.create_fts_index("text", ...)
create_fts_index(d) == [commit(d, d.rows) EXCEPT !.fts = TRUE]

\* table.optimize(): compaction commits a version only when it rewrote files
table_optimize_mut(d, compacted) == commit(d, {})
table_optimize(d, compacted) == IF compacted THEN commit(d, d.rows) ELSE d

\* db.drop_table("knowledge")
drop_table(d) ==
    [d EXCEPT !.knowledge = FALSE, !.rows = {}, !.version = 0,
              !.history = <<>>, !.fts = FALSE]

\* table.count_rows()
count_rows(d) == Cardinality(d.rows)

\* ------------------------------------------------------------- result dicts
E_NotInitialized == "Knowledge base not initialized"
E_NoTable == "No knowledge table"
E_NoKey == "EMBEDDING_API_KEY or OPENAI_API_KEY not set"
E_NoKeySearch == "EMBEDDING_API_KEY or OPENAI_API_KEY required for vector search"
E_NoContent == "No content to ingest"
E_Confirm == "Must pass --confirm to clear data"
E_Provider == "embedding provider error"
E_MustProvide == "Must provide --text, --text-file, or --file"
E_NoText == "No text content extracted from file"
E_NoSource == "Must specify source file"
E_NoChunkId == "Must specify chunk ID"
E_NoVersion == "Must specify version number"
E_NotNumber == "Version must be a number"
E_Engine == "storage engine error"
E_Value == "invalid literal for int()"
E_OS == "cannot create directory"

\* the keys a result dict may carry, each at its "absent" value
BaseResult ==
    [status |-> "ok", error |-> "", message |-> "", version |-> None,
     already_exists |-> FALSE, initialized |-> FALSE,
     chunks_added |-> None, total_rows |-> None,
     deleted_chunks |-> None, remaining_chunks |-> None, deleted |-> FALSE,
     restored_from |-> None, previous_version |-> None, new_version |-> None,
     row_count |-> None, fts_index |-> "", fts_index_created |-> FALSE,
     versions |-> {}, count |-> None, unique_sources |-> None,
     results |-> <<>>]

\* {"status": "error", "error": msg}
Err(msg) == [BaseResult EXCEPT !.status = "error", !.error = msg]

\* result["status"] = "error"; result["error"] = str(e)
Raised(res, msg) == [res EXCEPT !.status = "error", !.error = msg]

\* no dict is returned: the exception leaves the function
Escapes(msg) == [BaseResult EXCEPT !.status = "exception", !.error = msg]

Out(d, res, nid) == [db |-> d, res |-> res, ids |-> nid]

\* ------------------------------------------------------------ ingest_document
\* try: open_table("knowledge") except: create_table("knowledge", ...)
open_or_create_mut(d) == d
open_or_create(d) == IF d.knowledge THEN d ELSE create_table(d)

\* records: one per chunk, fresh uuid4 ids, chunk_index = position, page 1,
\* created_at = now, the clock being read once before the loop
make_records_mut(cs, file, nid, now) ==
    {[id |-> nid + k - 1, text |-> cs[k], source_file |-> file, page |-> 1,
      chunk_index |-> k - 1, created_at |-> now + k - 1] : k \in 1..Len(cs)}
make_records(cs, file, nid, now) ==
    {[id |-> nid + k - 1, text |-> cs[k], source_file |-> file, page |-> 1,
      chunk_index |-> k - 1, created_at |-> now] : k \in 1..Len(cs)}

\* datetime.now(timezone.utc): the clock reading of a call; the clock ticks
\* at least once between two calls, here once per id handed out
clock(nid) == nid

ingest_document(d, nid, file, t, m, o, key, fault) ==
    LET d1 == mkdir(d)
        result == [BaseResult EXCEPT !.chunks_added = 0]
    IN IF fault = "mkdir" THEN Out(d, Escapes(E_OS), nid)
       ELSE IF ~key THEN Out(d1, Err(E_NoKey), nid)
       ELSE IF fault = "provider" THEN Out(d1, Raised(result, E_Provider), nid)
       ELSE IF fault = "engine" THEN Out(d1, Raised(result, E_Engine), nid)
       ELSE LET d2 == open_or_create(d1)
                cs == chunk_text(t, m, o)
            IN IF cs = <<>> THEN Out(d2, Err(E_NoContent), nid)
               ELSE IF fault = "embed" THEN Out(d2, Raised(result, E_Provider), nid)
               ELSE LET d3 == table_add(d2, make_records(cs, file, nid, clock(nid)))
                    IN Out(d3,
                           [result EXCEPT !.chunks_added = Len(cs),
                                          !.version = d3.version,
                                          !.total_rows = count_rows(d3)],
                           nid + Len(cs))

\* ------------------------------------------------------------------ manage.py
\* (chunk ids are uuid4 strings; delete_by_id is invoked with ids only, so
\* its predicate id = '<id>' selects the record with that id)
\* if lance_dir.exists(): ... if "knowledge" in db.list_tables(): return
\* already_exists (an exception in the probe is passed over)
already_initialized_mut(d, fault) ==
    d.lance_dir /\ fault \notin {"engine", "probe"} /\ ~d.knowledge
already_initialized(d, fault) ==
    d.lance_dir /\ fault \notin {"engine", "probe"} /\ d.knowledge

\* fts_status = "created"; except Exception as fts_err: fts_status = f"failed: ..."
fts_status_mut(fault) == "created"
fts_status(fault) == IF fault = "fts" THEN "failed" ELSE "created"

\* the store init leaves when the credential or the embedding function cannot
\* be resolved: both returns come before db.create_table
init_aborted_mut(d1) == create_table(d1)
init_aborted(d1) == d1

init_knowledge_base(d, nid, key, fault) ==
    IF fault = "dim" THEN Out(d, Escapes(E_Value), nid)
    ELSE IF already_initialized(d, fault)
    THEN Out(d, [BaseResult EXCEPT !.already_exists = TRUE,
                     !.message = "Knowledge base already initialized"], nid)
    ELSE IF fault = "mkdir" THEN Out(d, Err(E_OS), nid)
    ELSE LET d1 == mkdir(d)
         IN IF ~key THEN Out(init_aborted(d1), Err(E_NoKey), nid)
            ELSE IF fault = "provider"
            THEN Out(init_aborted(d1), Err(E_Provider), nid)
            ELSE IF fault = "engine" \/ d1.knowledge THEN Out(d1, Err(E_Engine), nid)
            ELSE LET d2 == create_table(d1)
                     d3 == IF fault = "fts" THEN d2 ELSE create_fts_index(d2)
                 IN Out(d3,
                        [BaseResult EXCEPT
                            !.message = "Knowledge base initialized",
                            !.version = d3.version,
                            !.fts_index = fts_status(fault)],
                        nid)

\* the two guards every manage.py action on an existing table starts with;
\* "" when the table can be opened
open_error_mut(d, fault) ==
    IF ~d.lance_dir THEN E_NotInitialized
    ELSE IF fault = "engine" THEN E_Engine
    ELSE ""
open_error(d, fault) ==
    IF ~d.lance_dir THEN E_NotInitialized
    ELSE IF fault = "engine" THEN E_Engine
    ELSE IF ~d.knowledge THEN E_NoTable
    ELSE ""

delete_by_source(d, nid, file, fault) ==
    IF open_error(d, fault) # "" THEN Out(d, Err(open_error(d, fault)), nid)
    ELSE IF ~sql_select(source_predicate(file), d.rows).ok
    THEN Out(d, Err(E_Engine), nid)
    ELSE LET before_count == count_rows(d)
             d1 == table_delete(d, sql_select(source_predicate(file), d.rows).rows)
             after_count == count_rows(d1)
         IN Out(d1,
                [BaseResult EXCEPT !.deleted_chunks = before_count - after_count,
                                   !.version = d1.version,
                                   !.remaining_chunks = after_count],
                nid)

delete_by_id(d, nid, chunk_id, fault) ==
    IF open_error(d, fault) # "" THEN Out(d, Err(open_error(d, fault)), nid)
    ELSE LET before_count == count_rows(d)
             d1 == table_delete(d, {r \in d.rows : r.id = chunk_id})
             after_count == count_rows(d1)
         IN Out(d1,
                [BaseResult EXCEPT !.deleted = (before_count - after_count > 0),
                                   !.version = d1.version],
                nid)

reindex(d, nid, compacted, fault) ==
    IF open_error(d, fault) # "" THEN Out(d, Err(open_error(d, fault)), nid)
    ELSE LET d1 == table_optimize(d, compacted)
             d2 == IF fault = "fts" THEN d1 ELSE create_fts_index(d1)
         IN Out(d2,
                [BaseResult EXCEPT !.fts_index_created = (fault # "fts"),
                                   !.version = d2.version,
                                   !.row_count = count_rows(d2)],
                nid)

list_versions(d, nid, fault) ==
    IF open_error(d, fault) # "" THEN Out(d, Err(open_error(d, fault)), nid)
    ELSE Out(d,
             [BaseResult EXCEPT !.version = d.version,
                                !.versions = 1..Len(d.history),
                                !.count = Len(d.history)],
             nid)

\* "new_version": table.version, read after table.restore(version)
new_version_mut(before_version, d1) == before_version
new_version(before_version, d1) == d1.version

restore_version(d, nid, v, fault) ==
    IF open_error(d, fault) # "" THEN Out(d, Err(open_error(d, fault)), nid)
    ELSE IF v \notin 1..d.version THEN Out(d, Err(E_Engine), nid)
    ELSE LET before_version == d.version
             d1 == table_restore(d, v)
         IN Out(d1,
                [BaseResult EXCEPT !.restored_from = v,
                                   !.previous_version = before_version,
                                   !.new_version = new_version(before_version, d1),
                                   !.row_count = count_rows(d1)],
                nid)

\* if not lance_dir.exists(): return {"status": "ok", "initialized": False, ...}
stats_no_dir == [BaseResult EXCEPT !.initialized = FALSE]

get_stats(d, nid, fault) ==
    IF ~d.lance_dir THEN Out(d, stats_no_dir, nid)
    ELSE IF fault = "engine" THEN Out(d, Err(E_Engine), nid)
    ELSE Out(d,
             [BaseResult EXCEPT
                 !.initialized = TRUE,
                 !.version = IF d.knowledge THEN d.version ELSE None,
                 !.row_count = IF d.knowledge THEN count_rows(d) ELSE None,
                 !.unique_sources =
                     IF d.knowledge /\ fault # "breakdown"
                     THEN Cardinality({r.source_file : r \in d.rows})
                     ELSE None],
             nid)

\* if not confirm: return {"status": "error", ...}
clear_refused_mut(confirm) == FALSE
clear_refused(confirm) == ~confirm

clear_knowledge(d, nid, confirm, fault) ==
    IF clear_refused(confirm) THEN Out(d, Err(E_Confirm), nid)
    ELSE IF ~d.lance_dir
    THEN Out(d, [BaseResult EXCEPT !.message = "Nothing to clear"], nid)
    ELSE IF fault = "engine" THEN Out(d, Err(E_Engine), nid)
    ELSE Out(IF d.knowledge THEN drop_table(d) ELSE d,
             [BaseResult EXCEPT !.message = "Knowledge base cleared"], nid)

\* ------------------------------------------------------------------ search.py
SearchTypes == {"vector", "fts", "hybrid"}

\* search_type in ("vector", "hybrid")
needs_key_mut(search_type) == search_type = "vector"
needs_key(search_type) == search_type \in {"vector", "hybrid"}

\* the full-text index is built with remove_stop_words=True for English:
\* "a" is on the stop list, so it is neither indexed nor searched for
StopWords == {<<"a">>}

\* the terms the index holds for a text and looks up for a query
fts_terms(t) == {split(t)[k] : k \in 1..Len(split(t))} \ StopWords

\* table.search(query, query_type="fts"): the rows sharing a term with the query
fts_match(query, rows) ==
    {r \in rows : fts_terms(query) \cap fts_terms(r.text) # {}}

\* the rows a search of the given type ranks: a vector search ranks every
\* row by distance, a hybrid search merges the vector and full-text rankings
search_candidates(search_type, query, rows) ==
    IF search_type = "fts" THEN fts_match(query, rows) ELSE rows

\* the engine's ranking: ascending by its distance to the query, ties by id
RECURSIVE ranked(_, _)
ranked(rows, dist) ==
    IF rows = {} THEN <<>>
    ELSE LET first == CHOOSE r \in rows :
                 \A q \in rows :
                     \/ dist[r.id] < dist[q.id]
                     \/ dist[r.id] = dist[q.id] /\ r.id <= q.id
         IN <<first>> \o ranked(rows \ {first}, dist)

\* search_result.limit(limit)
take(seq, n) == SubSeq(seq, 1, IF Len(seq) < n THEN Len(seq) ELSE n)

\* search_result.where(filter_expr).limit(limit)...to_pandas(): the engine
\* selects the rows satisfying the filter, ranks them and keeps the first
\* `limit`; no filter is applied when filter_expr is empty
run_query_mut(cands, filter_expr, dist, limit) ==
    LET top == take(ranked(cands, dist), limit)
        kept == sql_select(filter_expr, {top[k] : k \in 1..Len(top)})
    IN IF filter_expr = <<>> THEN [ok |-> TRUE, rows |-> top]
       ELSE [ok |-> kept.ok, rows |-> ranked(kept.rows, dist)]
run_query(cands, filter_expr, dist, limit) ==
    LET sel == IF filter_expr = <<>> THEN [ok |-> TRUE, rows |-> cands]
               ELSE sql_select(filter_expr, cands)
    IN [ok |-> sel.ok, rows |-> take(ranked(sel.rows, dist), limit)]

\* distances are counted in quarters and scores in eighths, so that
\* 1.0 - (distance / 2.0) is ScoreOne - distance
ScoreOne == 8

\* row["score"] = max(0, 1.0 - (distance / 2.0))
vector_score(distance) ==
    IF ScoreOne - distance > 0 THEN ScoreOne - distance ELSE 0

\* results_list: the selected columns of each row and, for a vector search,
\* its score (the relevance scores of the other types are the engine's own
\* and are passed through: None here)
with_score(r, search_type, dist) ==
    [id |-> r.id, text |-> r.text, source_file |-> r.source_file,
     page |-> r.page, chunk_index |-> r.chunk_index,
     created_at |-> r.created_at,
     score |-> IF search_type = "vector" THEN vector_score(dist[r.id]) ELSE None]

\* if table.count_rows() == 0: return {... "results": [], "message": ...}
store_is_empty_mut(d) == FALSE
store_is_empty(d) == count_rows(d) = 0

search_knowledge(d, nid, query, search_type, limit, filter_expr, dist, key, fault) ==
    IF ~d.lance_dir THEN Out(d, Err(E_NotInitialized), nid)
    ELSE IF ~key /\ needs_key(search_type)
    THEN Out(d, Err(E_NoKeySearch), nid)
    ELSE IF fault = "engine" THEN Out(d, Raised(BaseResult, E_Engine), nid)
    ELSE IF ~d.knowledge THEN Out(d, Err("No knowledge table found"), nid)
    ELSE IF store_is_empty(d)
    THEN Out(d, [BaseResult EXCEPT !.message = "Knowledge base is empty"], nid)
    ELSE IF search_type # "fts" /\ fault \in {"provider", "embed"}
    THEN Out(d, Raised(BaseResult, E_Provider), nid)
    ELSE IF search_type # "vector" /\ ~d.fts
    THEN Out(d, Raised(BaseResult, E_Engine), nid)
    ELSE LET found == run_query(search_candidates(search_type, query, d.rows),
                                filter_expr, dist, limit)
         IN IF ~found.ok THEN Out(d, Raised(BaseResult, E_Engine), nid)
            ELSE Out(d,
                     [BaseResult EXCEPT
                         !.results = [k \in 1..Len(found.rows) |->
                                         with_score(found.rows[k], search_type, dist)],
                         !.count = Len(found.rows)],
                     nid)

\* -------------------------------------------------------------------- view.py
view_knowledge(d, nid, fault) ==
    IF ~d.lance_dir
    THEN Out(d, [BaseResult EXCEPT !.initialized = FALSE, !.total_rows = 0,
                     !.message = "Knowledge base not initialized"], nid)
    ELSE IF fault = "engine"
    THEN Out(d, Raised([BaseResult EXCEPT !.initialized = TRUE, !.total_rows = 0],
                       E_Engine), nid)
    ELSE IF ~d.knowledge
    THEN Out(d, [BaseResult EXCEPT !.initialized = TRUE, !.total_rows = 0,
                     !.message = "No knowledge table found"], nid)
    ELSE Out(d, [BaseResult EXCEPT !.initialized = TRUE, !.version = d.version,
                     !.total_rows = count_rows(d)], nid)

\* ------------------------------------------------------------------- setup.py
setup_knowledge_base(d, nid, fault) ==
    IF d.lance_dir
    THEN IF fault = "engine"
         THEN Out(d, Raised([BaseResult EXCEPT !.row_count = 0], E_Engine), nid)
         ELSE Out(d,
                  [BaseResult EXCEPT
                      !.initialized = TRUE,
                      !.version = IF d.knowledge THEN d.version ELSE None,
                      !.row_count = IF d.knowledge THEN count_rows(d) ELSE 0],
                  nid)
    ELSE IF fault = "mkdir" THEN Out(d, Escapes(E_OS), nid)
    ELSE IF fault = "engine"
         THEN Out(mkdir(d), Raised([BaseResult EXCEPT !.row_count = 0], E_Engine), nid)
         ELSE Out(mkdir(d),
                  [BaseResult EXCEPT !.initialized = TRUE, !.row_count = 0,
                       !.message = "Knowledge base initialized (empty)"], nid)

\* ------------------------------------------------------- the scripts' main()
\* ingest.py main() with --text: an empty --text counts as not given, a blank
\* one is refused; "" when main goes on to call ingest_document
ingest_main_error(t) ==
    IF t = <<>> THEN E_MustProvide
    ELSE IF strip(t) = <<>> THEN E_NoText
    ELSE ""

\* the script runs main() ends itself with print(...); sys.exit(1), before any
\* operation function is called: the action and the error printed
RejectedRuns ==
    {<<"ingest", E_MustProvide>>, <<"ingest", E_NoText>>,
     <<"delete", E_NoSource>>, <<"delete-id", E_NoChunkId>>,
     <<"restore", E_NoVersion>>, <<"restore", E_NotNumber>>}

\* the exit status of the script run that made an invocation: an escaped
\* exception ends the interpreter with status 1; otherwise main() prints the
\* result and returns, whatever its status; None for a direct call of
\* ingest_document with a text main() refuses to pass on
script_exit(name, t, res) ==
    IF name = "ingest" /\ ingest_main_error(t) # "" THEN None
    ELSE IF res.status = "exception" THEN 1
    ELSE 0

\* ----------------------------------------------------- scripts/remove-i18n.py
\* A source file is a sequence of lines; these are the kinds of line the
\* script tells apart.
L_ImportHook == "import { useTranslation } from 'react-i18next';"
L_ImportI18n == "import i18n from '@/renderer/i18n';"
L_Hook == "  const { t } = useTranslation();"
L_Call == "  const s = t('common.save');"
L_Split == "  const p = s.split('x');"
L_Replaced == "  const s = 'Save';"
Lines == {L_ImportHook, L_ImportI18n, L_Hook, L_Call, L_Split}

MaxLines == 2
Contents == SeqsUpTo(Lines, MaxLines)

\* a file on disk; open(filepath, "r") raises on one that cannot be read
Unreadable == [readable |-> FALSE, content |-> <<>>]
SourceFiles == {[readable |-> TRUE, content |-> c] : c \in Contents}
                   \cup {Unreadable}

\* sorted(files): every *.tsx and *.ts under src, or the one file of --file
Paths == {"a.ts", "b.tsx"}
FileLists == {<<"a.ts", "b.tsx">>, <<"a.ts">>, <<"b.tsx">>}

Stats0 ==
    [files_processed |-> 0, files_modified |-> 0, imports_removed |-> 0,
     hooks_removed |-> 0, t_calls_replaced |-> 0, errors |-> 0]

\* "useTranslation" in content or "t('" in content or 't("' in content
uses_i18n(content) ==
    \E k \in 1..Len(content) :
        content[k] \in {L_ImportHook, L_Hook, L_Call, L_Split}

\* the lines no import pattern and no hook pattern matches
KeepLine(line) == line \notin {L_ImportHook, L_ImportI18n}
KeepStatement(line) == line # L_Hook

\* re.sub(pattern, "", content) for each import pattern; count = matches
remove_i18n_imports(content) ==
    [content |-> SelectSeq(content, KeepLine),
     count |-> Len(content) - Len(SelectSeq(content, KeepLine))]

\* the same for the useTranslation hook declarations
remove_use_translation_hook(content) ==
    [content |-> SelectSeq(content, KeepStatement),
     count |-> Len(content) - Len(SelectSeq(content, KeepStatement))]

\* t('common.save') becomes the English string of en-US.json; the quote
\* after split is no t() call and stays
replace_t_calls(content) ==
    [content |-> [k \in 1..Len(content) |->
                     IF content[k] = L_Call THEN L_Replaced ELSE content[k]],
     count |-> Cardinality({k \in 1..Len(content) : content[k] = L_Call})]

\* if DRY_RUN: print(...) else: open(filepath, "w").write(content)
writes_mut(dry) == TRUE
writes(dry) == ~dry

\* process_file: the disk and the stats it leaves, and what it returns
process_file(filepath, d, st, dry) ==
    IF ~d[filepath].readable
    THEN [disk |-> d, stats |-> [st EXCEPT !.errors = @ + 1], ret |-> FALSE]
    ELSE LET original == d[filepath].content
         IN IF ~uses_i18n(original)
            THEN [disk |-> d, stats |-> st, ret |-> FALSE]
            ELSE LET a == remove_i18n_imports(original)
                     b == remove_use_translation_hook(a.content)
                     c == replace_t_calls(b.content)
                     st1 == [st EXCEPT
                                !.files_processed = @ + 1,
                                !.imports_removed = @ + a.count,
                                !.hooks_removed = @ + b.count,
                                !.t_calls_replaced = @ + c.count]
                 IN IF c.content # original
                    THEN [disk |-> IF writes(dry)
                                   THEN [d EXCEPT ![filepath].content = c.content]
                                   ELSE d,
                          stats |-> [st1 EXCEPT !.files_modified = @ + 1],
                          ret |-> TRUE]
                    ELSE [disk |-> d, stats |-> st1, ret |-> FALSE]

\* for filepath in sorted(files): process_file(filepath, translations)
RECURSIVE main_loop(_, _, _, _)
main_loop(files, d, st, dry) ==
    IF files = <<>> THEN [disk |-> d, stats |-> st]
    ELSE LET r == process_file(Head(files), d, st, dry)
         IN main_loop(Tail(files), r.disk, r.stats, dry)

VARIABLES
    \* one call of chunk_text, step by step
    pc,          \* "call" | "loop" | "ret" | "done"
    text,        \* argument text
    max_words,   \* argument max_words
    overlap,     \* argument overlap
    words,       \* local words
    chunks,      \* local chunks
    i,           \* local i
    ret,         \* the returned list
    \* one workspace and the invocations run against it, one at a time
    db,          \* the workspace on disk (see NoStore)
    next_id,     \* the next id uuid.uuid4() hands out
    op,          \* the last invocation: its name and arguments
    pre,         \* db as that invocation found it
    result,      \* the dict that invocation returned
    exit_code,   \* the exit status of the script run (see script_exit)
    \* one run of remove-i18n.py
    DRY_RUN,     \* "--dry-run" in sys.argv
    disk,        \* the content of each source file (see Unreadable)
    disk0,       \* disk as the run found it
    stats,       \* the module-level stats dict
    todo,        \* sorted(files), the part main() has not yet processed
    done,        \* the part it has processed
    \* invocations running at the same time against the workspace db
    procs        \* each process: its invocation, position, locals and result

chunk_vars == <<pc, text, max_words, overlap, words, chunks, i, ret>>
store_vars == <<db, next_id, op, pre, result, exit_code>>
script_vars == <<DRY_RUN, disk, disk0, stats, todo, done>>
race_vars == <<procs>>

vars == <<chunk_vars, store_vars, script_vars, race_vars>>

NoOp == [name |-> "none", target |-> "", text |-> <<>>, key |-> FALSE,
         fault |-> "none", confirm |-> FALSE,
         limit |-> None, filter |-> <<>>, dist |-> <<>>]

StoreIdle ==
    /\ db = NoStore
    /\ next_id = 1
    /\ op = NoOp
    /\ pre = NoStore
    /\ result = BaseResult
    /\ exit_code = None

\* no run of remove-i18n.py
ScriptIdle ==
    /\ DRY_RUN = FALSE
    /\ disk = <<>>
    /\ disk0 = <<>>
    /\ stats = <<>>
    /\ todo = <<>>
    /\ done = <<>>

\* no process
RaceIdle == procs = <<>>

ChunkIdle ==
    /\ pc = "idle"
    /\ text = <<>>
    /\ max_words = 1
    /\ overlap = 0
    /\ words = <<>>
    /\ chunks = <<>>
    /\ i = 0
    /\ ret = <<>>

\* the arguments are drawn here; max_words >= 1, overlap >= 0, and overlap
\* may be >= max_words (the function does not check it)
InitChunk ==
    /\ pc = "call"
    /\ text \in Texts
    /\ max_words \in 1..MaxParam
    /\ overlap \in 0..(MaxParam + 1)
    /\ words = <<>>
    /\ chunks = <<>>
    /\ i = 0
    /\ ret = <<>>
    /\ StoreIdle /\ ScriptIdle /\ RaceIdle

\* words = text.split(); chunks = []; i = 0
ChunkStart ==
    /\ pc = "call"
    /\ words' = split(text)
    /\ chunks' = <<>>
    /\ i' = 0
    /\ pc' = "loop"
    /\ UNCHANGED <<text, max_words, overlap, ret, store_vars, script_vars, race_vars>>

\* one iteration of the while loop (its body runs when i < len(words))
ChunkIter ==
    /\ pc = "loop"
    /\ i < Len(words)
    /\ Len(chunks) < MaxChunks
    /\ LET cw == chunk_words(words, i, max_words)
       IN /\ chunks' = append_chunk(chunks, cw)
          /\ i' = advance(i, max_words, overlap)
          /\ pc' = IF loop_breaks(cw, max_words) THEN "ret" ELSE "loop"
    /\ UNCHANGED <<text, max_words, overlap, words, ret, store_vars, script_vars, race_vars>>

\* the while condition is false
ChunkExit ==
    /\ pc = "loop"
    /\ ~(i < Len(words))
    /\ pc' = "ret"
    /\ UNCHANGED <<text, max_words, overlap, words, chunks, i, ret, store_vars, script_vars, race_vars>>

\* the return statement
ChunkReturn ==
    /\ pc = "ret"
    /\ ret' = chunk_result(chunks, text)
    /\ pc' = "done"
    /\ UNCHANGED <<text, max_words, overlap, words, chunks, i, store_vars, script_vars, race_vars>>

NextChunk == ChunkStart \/ ChunkIter \/ ChunkExit \/ ChunkReturn

SpecChunk == InitChunk /\ [][NextChunk]_vars

\* a call runs to its end unless it is stuck in the loop: the interpreter
\* always takes the next step of a running function
SpecChunkFair == SpecChunk /\ WF_vars(NextChunk)

\* ------------------------------------------------------------ invocations
\* one invocation: the handler's outcome becomes the new state; the caps on
\* the version counter and on the ids keep the state space finite
Invoke(name, target, t, key, fault, confirm, out) ==
    /\ out.db.version <= MaxVersion
    /\ out.ids - 1 <= MaxIds
    /\ db' = out.db
    /\ next_id' = out.ids
    /\ result' = out.res
    /\ pre' = db
    /\ op' = [NoOp EXCEPT !.name = name, !.target = target, !.text = t,
                           !.key = key, !.fault = fault, !.confirm = confirm]
    /\ exit_code' = script_exit(name, t, out.res)
    /\ UNCHANGED <<chunk_vars, script_vars, race_vars>>

\* an invocation of search_knowledge: op.target is the search type and op.text
\* the query
InvokeSearch(query, search_type, limit, filter_expr, dist, key, fault) ==
    LET out == search_knowledge(db, next_id, query, search_type, limit,
                                filter_expr, dist, key, fault)
    IN /\ db' = out.db
       /\ next_id' = out.ids
       /\ result' = out.res
       /\ pre' = db
       /\ op' = [NoOp EXCEPT !.name = "search", !.target = search_type,
                              !.text = query, !.key = key, !.fault = fault,
                              !.limit = limit, !.filter = filter_expr,
                              !.dist = dist]
       /\ exit_code' = script_exit("search", query, out.res)
       /\ UNCHANGED <<chunk_vars, script_vars, race_vars>>

\* a script run that main() ends before calling any operation function
MainRejects ==
    \E run \in RejectedRuns :
        /\ result' = Err(run[2])
        /\ exit_code' = 1
        /\ pre' = db
        /\ op' = [NoOp EXCEPT !.name = "main", !.target = run[1]]
        /\ UNCHANGED <<db, next_id, chunk_vars, script_vars, race_vars>>

Init_ ==
    \E key \in BOOLEAN : \E fault \in InitFaults(key) \cup DirFaults(db) :
        Invoke("init", "", <<>>, key, fault, FALSE,
               init_knowledge_base(db, next_id, key, fault))

Ingest ==
    \E file \in Files, c \in IngestCalls, key \in BOOLEAN :
        \E fault \in IngestFaults(key) \cup DirFaults(db) :
            LET t == c[1]
                p == c[2]
            IN Invoke("ingest", file, t, key, fault, FALSE,
                      ingest_document(db, next_id, file, t, p[1], p[2], key, fault))

\* (a failing connection is drawn with one target only: delete, delete-id and
\* restore fail on it before they look at the target)
Delete ==
    \E file \in DeleteTargets, fault \in EngineFaults :
        /\ fault = "engine" => file = <<"doc.txt">>
        /\ Invoke("delete", file, <<>>, FALSE, fault, FALSE,
               delete_by_source(db, next_id, file, fault))

DeleteId ==
    \E chunk_id \in 1..MaxIds, fault \in EngineFaults :
        /\ fault = "engine" => chunk_id = 1
        /\ Invoke("delete-id", chunk_id, <<>>, FALSE, fault, FALSE,
               delete_by_id(db, next_id, chunk_id, fault))

Reindex ==
    \E compacted \in BOOLEAN, fault \in ReindexFaults :
        /\ fault = "engine" => ~compacted
        /\ Invoke("reindex", "", <<>>, FALSE, fault, FALSE,
               reindex(db, next_id, compacted, fault))

Versions ==
    \E fault \in EngineFaults :
        Invoke("versions", "", <<>>, FALSE, fault, FALSE,
               list_versions(db, next_id, fault))

Restore ==
    \E v \in 0..MaxVersion, fault \in EngineFaults :
        /\ fault = "engine" => v = 1
        /\ Invoke("restore", v, <<>>, FALSE, fault, FALSE,
               restore_version(db, next_id, v, fault))

Stats ==
    \E fault \in StatsFaults :
        Invoke("stats", "", <<>>, FALSE, fault, FALSE,
               get_stats(db, next_id, fault))

Clear ==
    \E confirm \in BOOLEAN, fault \in EngineFaults :
        Invoke("clear", "", <<>>, FALSE, fault, confirm,
               clear_knowledge(db, next_id, confirm, fault))

\* (here every search asks for "b" with the default limit, no filter and all
\* rows at distance 0; SpecSearch draws these)
DefaultLimit == 10
NoDist == [k \in 1..(MaxIds + 1) |-> 0]

Search ==
    \E search_type \in SearchTypes, key \in BOOLEAN :
      \E fault \in SearchFaults(search_type, key) :
        InvokeSearch(<<"b">>, search_type, DefaultLimit, <<>>, NoDist, key, fault)

View ==
    \E fault \in EngineFaults :
        Invoke("view", "", <<>>, FALSE, fault, FALSE,
               view_knowledge(db, next_id, fault))

Setup ==
    \E fault \in EngineFaults \cup DirFaults(db) :
        Invoke("setup", "", <<>>, FALSE, fault, FALSE,
               setup_knowledge_base(db, next_id, fault))

InitStore == ChunkIdle /\ StoreIdle /\ ScriptIdle /\ RaceIdle

Next ==
    \/ Init_ \/ Ingest \/ Delete \/ DeleteId \/ Reindex \/ Versions
    \/ Restore \/ Stats \/ Clear \/ Search \/ View \/ Setup \/ MainRejects

Spec == InitStore /\ [][Next]_vars

\* ------------------------------------------------- searches of a built store
\* A store is built by init, ingest and reindex and then searched, the
\* arguments of search_knowledge and the engine's distances being drawn. A
\* search changes nothing in the store, so a behaviour ends with it.
MaxLimit == 2
\* distances 0.0 and 3.0 (in quarters)
SearchDists == {0, 12}
Dists == [1..(MaxIds + 1) -> SearchDists]
SearchTexts == {<<"b">>, <<"a", Space, "b">>}
Queries == {<<"a">>, <<"b">>}
Filters == {<<>>} \cup {source_predicate(f) : f \in Files \cup {QuotedName}}

Building == op.name # "search"

SearchSetup ==
    /\ Building
    /\ \E fault \in {"none", "fts"} :
          Invoke("init", "", <<>>, TRUE, fault, FALSE,
                 init_knowledge_base(db, next_id, TRUE, fault))

SearchIngest ==
    /\ Building
    /\ \E file \in Files, t \in SearchTexts :
          Invoke("ingest", file, t, TRUE, "none", FALSE,
                 ingest_document(db, next_id, file, t, 1, 0, TRUE, "none"))

SearchReindex ==
    /\ Building
    /\ Invoke("reindex", "", <<>>, FALSE, "none", FALSE,
              reindex(db, next_id, FALSE, "none"))

SearchQuery ==
    /\ Building
    /\ \E query \in Queries, search_type \in SearchTypes, limit \in 1..MaxLimit,
          filter_expr \in Filters, dist \in Dists :
          InvokeSearch(query, search_type, limit, filter_expr, dist, TRUE, "none")

NextSearch == SearchSetup \/ SearchIngest \/ SearchReindex \/ SearchQuery
SpecSearch == InitStore /\ [][NextSearch]_vars

\* ------------------------------------------------- the score of a vector search
\* The score loop of search_knowledge on a result of two rows. The table is
\* created and searched without a metric, so _distance is the engine's
\* default, the squared L2 distance: 0.0 to 4.0 between the unit vectors of
\* the embedding provider (0..MaxDist in quarters).
MaxDist == 16

InitScore ==
    /\ ChunkIdle /\ ScriptIdle /\ RaceIdle
    /\ db = NoStore /\ next_id = 1 /\ pre = NoStore
    /\ result = BaseResult /\ exit_code = None
    /\ \E dist \in [1..2 -> 0..MaxDist] : op = [NoOp EXCEPT !.dist = dist]

Score ==
    /\ op.name = "none"
    /\ op' = [op EXCEPT !.name = "score", !.target = "vector"]
    /\ result' = [BaseResult EXCEPT
                     !.results = [k \in 1..2 |->
                                     [id |-> k, score |-> vector_score(op.dist[k])]],
                     !.count = 2]
    /\ UNCHANGED <<db, next_id, pre, exit_code, chunk_vars, script_vars, race_vars>>

NextScore == Score
SpecScore == InitScore /\ [][NextScore]_vars

\* ------------------------------------------------ one run of remove-i18n.py
InitScript ==
    /\ ChunkIdle /\ StoreIdle /\ RaceIdle
    /\ DRY_RUN \in BOOLEAN
    /\ disk \in [Paths -> SourceFiles]
    /\ disk0 = disk
    /\ stats = Stats0
    /\ todo \in FileLists
    /\ done = <<>>

\* one turn of the loop of main()
ProcessFile ==
    /\ todo # <<>>
    /\ LET r == process_file(Head(todo), disk, stats, DRY_RUN)
       IN /\ disk' = r.disk
          /\ stats' = r.stats
    /\ todo' = Tail(todo)
    /\ done' = Append(done, Head(todo))
    /\ UNCHANGED <<DRY_RUN, disk0, chunk_vars, store_vars, race_vars>>

NextScript == ProcessFile
SpecScript == InitScript /\ [][NextScript]_vars

\* --------------------------------- two invocations at once on one workspace
\* Two script runs are started against the same workspace and run at the same
\* time. Nothing in the scripts locks the workspace, so their steps interleave
\* at every call of the engine; each call of the engine is atomic, and
\* table.count_rows() reads the table as it is at the time of the call.
\* `pre` is the workspace as the two runs found it.
Procs == {1, 2}

Store0 == init_knowledge_base(NoStore, 1, TRUE, "none").db
Store1 == ingest_document(Store0, 1, <<"doc.txt">>, <<"a">>, 1, 0, TRUE, "none").db
Store2 == ingest_document(Store1, 2, <<"b.txt">>, <<"b">>, 1, 0, TRUE, "none").db
RaceStores == {NoStore, Store0, Store1, Store2}

RaceCalls ==
    {[name |-> "init", file |-> <<>>, chunk_id |-> None, text |-> <<>>],
     [name |-> "delete", file |-> <<"doc.txt">>, chunk_id |-> None, text |-> <<>>],
     [name |-> "delete-id", file |-> <<>>, chunk_id |-> 1, text |-> <<>>]}
    \cup {[name |-> "ingest", file |-> <<"doc.txt">>, chunk_id |-> None,
            text |-> <<"a">>],
           [name |-> "ingest", file |-> <<"b.txt">>, chunk_id |-> None,
            text |-> <<"a", Space, "b">>]}

\* a process at the start of its invocation; removed counts the rows its own
\* table.delete removed
Started(call) ==
    [call |-> call, pc |-> "start", before_count |-> None, removed |-> 0,
     result |-> BaseResult]

InitRace ==
    /\ ChunkIdle /\ ScriptIdle
    /\ db \in RaceStores
    /\ next_id = Cardinality(db.rows) + 1
    /\ pre = db
    /\ op = NoOp /\ result = BaseResult /\ exit_code = None
    /\ procs \in [Procs -> {Started(c) : c \in RaceCalls}]
    \* delete-id is given the id of a record the workspace holds
    /\ \A p \in Procs :
          procs[p].call.name = "delete-id"
              => \E r \in db.rows : r.id = procs[p].call.chunk_id

At(p, name, at) == procs[p].call.name \in name /\ procs[p].pc = at
Goto(p, at) == procs' = [procs EXCEPT ![p].pc = at]
Return(p, res) == procs' = [procs EXCEPT ![p].pc = "done", ![p].result = res]
RaceFrame == UNCHANGED <<op, pre, result, exit_code, chunk_vars, script_vars>>

\* delete_by_source, delete_by_id: the guards, open_table and before_count
DeleteOpen ==
    \E p \in Procs :
        /\ At(p, {"delete", "delete-id"}, "start")
        /\ IF open_error(db, "none") # ""
           THEN Return(p, Err(open_error(db, "none")))
           ELSE procs' = [procs EXCEPT ![p].pc = "delete",
                                       ![p].before_count = count_rows(db)]
        /\ UNCHANGED <<db, next_id>>
        /\ RaceFrame

\* table.delete(...)
DeleteRows ==
    \E p \in Procs :
        /\ At(p, {"delete", "delete-id"}, "delete")
        /\ LET matching ==
                   IF procs[p].call.name = "delete"
                   THEN sql_select(source_predicate(procs[p].call.file), db.rows).rows
                   ELSE {r \in db.rows : r.id = procs[p].call.chunk_id}
           IN /\ db' = table_delete(db, matching)
              /\ procs' = [procs EXCEPT ![p].pc = "count",
                                         ![p].removed = Cardinality(matching)]
        /\ UNCHANGED next_id
        /\ RaceFrame

\* after_count = table.count_rows(); deleted = before_count - after_count
DeleteReport ==
    \E p \in Procs :
        /\ At(p, {"delete", "delete-id"}, "count")
        /\ LET after_count == count_rows(db)
               deleted == procs[p].before_count - after_count
           IN Return(p, IF procs[p].call.name = "delete"
                        THEN [BaseResult EXCEPT !.deleted_chunks = deleted,
                                                !.version = db.version,
                                                !.remaining_chunks = after_count]
                        ELSE [BaseResult EXCEPT !.deleted = (deleted > 0),
                                                !.version = db.version])
        /\ UNCHANGED <<db, next_id>>
        /\ RaceFrame

\* init_knowledge_base: the probe for an existing table, then mkdir
InitProbe ==
    \E p \in Procs :
        /\ At(p, {"init"}, "start")
        /\ IF already_initialized(db, "none")
           THEN /\ Return(p, [BaseResult EXCEPT
                                 !.already_exists = TRUE,
                                 !.message = "Knowledge base already initialized"])
                /\ db' = db
           ELSE /\ Goto(p, "create")
                /\ db' = mkdir(db)
        /\ UNCHANGED next_id
        /\ RaceFrame

\* db.create_table("knowledge", schema=...): raises when the table exists
InitCreate ==
    \E p \in Procs :
        /\ At(p, {"init"}, "create")
        /\ IF db.knowledge
           THEN Return(p, Err(E_Engine)) /\ db' = db
           ELSE Goto(p, "fts") /\ db' = create_table(db)
        /\ UNCHANGED next_id
        /\ RaceFrame

\* table.create_fts_index(...) and the returned dict
InitFts ==
    \E p \in Procs :
        /\ At(p, {"init"}, "fts")
        /\ db' = create_fts_index(db)
        /\ Return(p, [BaseResult EXCEPT !.message = "Knowledge base initialized",
                                        !.version = db'.version,
                                        !.fts_index = fts_status("none")])
        /\ UNCHANGED next_id
        /\ RaceFrame

\* ingest_document: mkdir, then try: db.open_table("knowledge")
IngestOpen ==
    \E p \in Procs :
        /\ At(p, {"ingest"}, "start")
        /\ db' = mkdir(db)
        /\ Goto(p, IF db.knowledge THEN "add" ELSE "create")
        /\ UNCHANGED next_id
        /\ RaceFrame

\* except Exception: db.create_table("knowledge", schema=DocumentChunk)
IngestCreate ==
    \E p \in Procs :
        /\ At(p, {"ingest"}, "create")
        /\ IF db.knowledge
           THEN /\ Return(p, Raised([BaseResult EXCEPT !.chunks_added = 0], E_Engine))
                /\ db' = db
           ELSE Goto(p, "add") /\ db' = create_table(db)
        /\ UNCHANGED next_id
        /\ RaceFrame

\* chunk_text, the records, table.add(records) and the returned dict
IngestAdd ==
    \E p \in Procs :
        /\ At(p, {"ingest"}, "add")
        /\ LET cs == chunk_text(procs[p].call.text, 1, 0)
           IN /\ db' = table_add(db, make_records(cs, procs[p].call.file,
                                                  next_id, clock(next_id)))
              /\ next_id' = next_id + Len(cs)
              /\ Return(p, [BaseResult EXCEPT !.chunks_added = Len(cs),
                                              !.version = db'.version,
                                              !.total_rows = count_rows(db')])
        /\ RaceFrame

NextRace ==
    \/ DeleteOpen \/ DeleteRows \/ DeleteReport
    \/ InitProbe \/ InitCreate \/ InitFts
    \/ IngestOpen \/ IngestCreate \/ IngestAdd
SpecRace == InitRace /\ [][NextRace]_vars

\* ------------------------------------------------------------ chunker claims
ValidParams == max_words >= 1 /\ 0 <= overlap /\ overlap < max_words

NumWords == Len(split(text))

IsExampleCall == text = ExampleText /\ max_words = 4 /\ overlap = 2

\* ["a b c d", "c d e f"]
ExampleClaimed ==
    << <<"a", " ", "b", " ", "c", " ", "d">>,
       <<"c", " ", "d", " ", "e", " ", "f">> >>

\* ["a b c d", "c d e f", "e f"]
ExampleReturned == Append(ExampleClaimed, <<"e", " ", "f">>)

\* C1 as stated: chunk_text("a b c d e f", 4, 2) returns exactly
\* ["a b c d", "c d e f"]; the window that reaches the last word is the final
\* chunk.
C1_ExampleTwoChunks ==
    (pc = "done" /\ IsExampleCall) => ret = ExampleClaimed

\* C1 amended: the example returns ["a b c d", "c d e f", "e f"]; in general,
\* when a window of exactly max_words words reaches the last word and
\* overlap > 0, one more chunk holding the last `overlap` words is emitted and
\* is the final chunk.
C1_ExampleThreeChunks ==
    /\ (pc = "done" /\ IsExampleCall) => ret = ExampleReturned
    /\ (/\ pc = "done" /\ ValidParams /\ overlap > 0
        /\ NumWords >= max_words
        /\ (NumWords - max_words) % (max_words - overlap) = 0)
       => /\ Len(ret) = ((NumWords - max_words) \div (max_words - overlap)) + 2
          /\ ret[Len(ret)] =
                join(SubSeq(split(text), NumWords - overlap + 1, NumWords))

C1_Witness == pc = "done" /\ IsExampleCall /\ Len(ret) = 3

\* C2: with max_words >= 1 and 0 <= overlap < max_words chunk_text
\* terminates: every loop iteration strictly increases i, the loop body never
\* runs with i past the last word (so i never exceeds it by a full step), the
\* chunk list stays within the cap, and the call reaches its return.
C2_Terminates ==
    /\ [][(ValidParams /\ pc = "loop" /\ i < Len(words)) => i' > i]_vars
    /\ [](ValidParams /\ pc \in {"loop", "ret", "done"}
            => /\ i < Len(words) + (max_words - overlap)
               /\ Len(chunks) <= Len(words)
               /\ Len(chunks) < MaxChunks)
    /\ (ValidParams => <>(pc = "done"))

C2_Witness == ValidParams /\ pc = "done" /\ Len(ret) >= 3 /\ i >= Len(words)

\* C3: a call with overlap >= max_words is rejected before any chunk is
\* produced (nothing is appended, nothing is returned) and never runs a loop
\* iteration that does not advance i.
C3_InvalidOverlapRejected ==
    [][overlap >= max_words
        => /\ chunks' = <<>>
           /\ ret' = <<>>
           /\ (pc = "loop" /\ pc' = "loop" => i' > i)]_vars

\* the first chunk whole, then each later chunk without its first o words
RECURSIVE novel_words(_, _, _)
novel_words(cs, o, k) ==
    IF k > Len(cs) THEN <<>>
    ELSE LET w == split(cs[k])
         IN (IF k = 1 THEN w ELSE SubSeq(w, o + 1, Len(w)))
            \o novel_words(cs, o, k + 1)

\* C4: for 0 <= overlap < max_words every chunk has between 1 and max_words
\* words, the first chunk followed by each later chunk's words after its first
\* `overlap` words is exactly the text's word sequence, and the last chunk
\* ends with the text's last word.
C4_Reconstructs ==
    (pc = "done" /\ ValidParams) =>
        /\ \A k \in 1..Len(ret) :
              /\ Len(split(ret[k])) >= 1
              /\ Len(split(ret[k])) <= max_words
              /\ ret[k] = join(split(ret[k]))
        /\ novel_words(ret, overlap, 1) = split(text)
        /\ NumWords > 0 =>
              /\ ret # <<>>
              /\ LET last == split(ret[Len(ret)])
                 IN last[Len(last)] = split(text)[NumWords]

C4_Witness ==
    /\ pc = "done" /\ ValidParams /\ overlap > 0 /\ Len(ret) >= 3
    /\ text # ExampleText /\ text # join(split(text))

\* C5: empty or whitespace-only text returns the empty list; a text with at
\* least one and fewer than max_words words returns exactly one chunk, its
\* words in order joined by single spaces.
C5_Degenerate ==
    pc = "done" =>
        /\ NumWords = 0 => ret = <<>>
        /\ (NumWords >= 1 /\ NumWords < max_words) => ret = <<join(split(text))>>

C5_Witness ==
    /\ pc = "done" /\ NumWords >= 2 /\ NumWords < max_words
    /\ Len(ret) = 1 /\ ret[1] # text

\* -------------------------------------------------------------- store claims
Initialized(d) == d.knowledge

\* C6: in every store state no two records share (source_file, chunk_index),
\* also after the same source_file was ingested more than once.
C6_UniqueChunkIndex ==
    \A r1 \in db.rows, r2 \in db.rows :
        (r1.source_file = r2.source_file /\ r1.chunk_index = r2.chunk_index)
            => r1 = r2

FailFastOps == {"search", "delete", "delete-id", "reindex", "versions", "restore"}

C9_InitIdempotent ==
    (op.name = "init" /\ Initialized(pre))
        => /\ db.version = pre.version
           /\ db.rows = pre.rows
           /\ db = pre
           /\ op.fault \notin {"engine", "probe", "dim"}
                => (result.status = "ok" /\ result.already_exists)

C9_Witness ==
    /\ op.name = "init" /\ Initialized(pre) /\ pre.rows # {} /\ ~op.key
    /\ result.status = "ok" /\ result.already_exists

\* the version a mutating operation reports
ReportedVersion ==
    IF op.name = "restore" THEN result.new_version ELSE result.version

\* C10 as stated: every successful ingest, delete, delete-id, reindex and
\* restore reports a version strictly greater than the version before it;
\* restore(v) reports new_version > previous_version and never v.
C10_EveryMutationAdvances ==
    (op.name \in {"ingest", "delete", "delete-id", "reindex", "restore"}
     /\ result.status = "ok")
        => /\ ReportedVersion > pre.version
           /\ op.name = "restore"
                => /\ result.new_version > result.previous_version
                   /\ result.new_version # result.restored_from

\* C10 amended: every successful ingest, delete, delete-id and restore reports
\* a version strictly greater than the version before it; restore(v) reports
\* new_version > previous_version and never v; a successful reindex reports a
\* version that is not smaller, and strictly greater when it rebuilt the
\* full-text index.
C10_MutationsAdvance ==
    /\ (op.name \in {"ingest", "delete", "delete-id", "restore"}
        /\ result.status = "ok")
        => /\ ReportedVersion > pre.version
           /\ ReportedVersion = db.version
    /\ (op.name = "restore" /\ result.status = "ok")
        => /\ result.previous_version = pre.version
           /\ result.new_version > result.previous_version
           /\ result.new_version # result.restored_from
    /\ (op.name = "reindex" /\ result.status = "ok")
        => /\ result.version >= pre.version
           /\ result.fts_index_created => result.version > pre.version

C10_Witness ==
    /\ op.name = "restore" /\ result.status = "ok"
    /\ result.restored_from = pre.version /\ pre.rows # {}

\* C11: restore(v) is forward-only: every version number list_versions
\* listed before the restore is still listed after it, each of those versions
\* still holds the records it held, and the records of the store after the
\* restore are exactly the records of historical version v.
C11_RestoreForwardOnly ==
    (op.name = "restore" /\ result.status = "ok")
        => /\ list_versions(pre, next_id, "none").res.versions
                \subseteq list_versions(db, next_id, "none").res.versions
           /\ \A k \in 1..Len(pre.history) : db.history[k] = pre.history[k]
           /\ db.rows = pre.history[op.target]
           /\ result.row_count = Cardinality(pre.history[op.target])

C11_Witness ==
    /\ op.name = "restore" /\ result.status = "ok"
    /\ op.target < pre.version /\ db.rows # pre.rows
    /\ Len(db.history) = Len(pre.history) + 1

\* C12: for every source_file string F, after delete_by_source(F) succeeds no
\* record with source_file F remains, every record with another source_file
\* is still present, deleted_chunks is the number of records that had
\* source_file F before the call, and remaining_chunks is the previous row
\* count minus deleted_chunks.
C12_DeleteBySource ==
    (op.name = "delete" /\ result.status = "ok")
        => /\ \A r \in db.rows : r.source_file # op.target
           /\ \A r \in pre.rows : r.source_file # op.target => r \in db.rows
           /\ result.deleted_chunks =
                 Cardinality({r \in pre.rows : r.source_file = op.target})
           /\ result.remaining_chunks =
                 Cardinality(pre.rows) - result.deleted_chunks

\* C13: clear without the confirm flag returns status error and leaves the
\* store untouched (table, records, version: the whole store), in every store
\* state; clear with confirm on an initialized store leaves no records (when
\* the engine call does not fail, and whenever it returns status ok).
C13_ClearGuard ==
    /\ (op.name = "clear" /\ ~op.confirm)
        => /\ result.status = "error"
           /\ result.error = E_Confirm
           /\ db.knowledge = pre.knowledge
           /\ db.rows = pre.rows
           /\ db.version = pre.version
           /\ db = pre
    /\ (op.name = "clear" /\ op.confirm /\ Initialized(pre))
        => /\ op.fault = "none" => result.status = "ok"
           /\ result.status = "ok" => (db.rows = {} /\ count_rows(db) = 0)

C13_Witness ==
    /\ op.name = "clear" /\ ~op.confirm /\ op.fault = "none"
    /\ Initialized(pre) /\ pre.rows # {} /\ db.rows = pre.rows

\* an ingest of empty or whitespace-only text: a call of ingest_document, or
\* a run of ingest.py that main() ends for lack of text
BlankIngest ==
    \/ op.name = "ingest" /\ strip(op.text) = <<>>
    \/ op.name = "main" /\ op.target = "ingest"

\* C14: ingest of empty or whitespace-only text returns status error with a
\* message saying there is no content and leaves the store's version and row
\* count unchanged (no table and no record is created), whatever the store
\* state and the credential configuration.
C14_BlankIngestNoEffect ==
    BlankIngest
        => /\ result.status = "error"
           /\ result.error \in {E_NoContent, E_NoText, E_MustProvide}
           /\ db.version = pre.version
           /\ count_rows(db) = count_rows(pre)
           /\ db.knowledge = pre.knowledge
           /\ db.rows = pre.rows

\* the scripts the exit-status rule is about: ingest.py, search.py, manage.py
CliOps ==
    {"init", "ingest", "search", "delete", "delete-id", "reindex", "versions",
     "restore", "stats", "clear", "main"}

\* C15: each CLI subcommand exits with status 0 exactly when the JSON object
\* it printed has status ok, and with status 1 exactly when it has status
\* error.
C15_ExitMatchesStatus ==
    (op.name \in CliOps /\ exit_code # None /\ result.status \in {"ok", "error"})
        => /\ exit_code = 0 <=> result.status = "ok"
           /\ exit_code = 1 <=> result.status = "error"

\* the operation functions
OperationFuncs ==
    {"init", "ingest", "search", "delete", "delete-id", "reindex", "versions",
     "restore", "stats", "clear", "view"}

\* C16: no operation function lets an exception escape: it always returns a
\* result object, and a failed environment-value parse or directory creation
\* is returned with status error and an error message.
C16_NoEscape ==
    op.name \in OperationFuncs
        => /\ result.status \in {"ok", "error"}
           /\ op.fault \in {"dim", "mkdir"}
                => (result.status = "error" /\ result.error # "")

\* the sub-steps whose failure the operation passes over
FtsStepFailed ==
    /\ op.fault = "fts"
    /\ \/ op.name = "init" /\ op.key /\ ~pre.knowledge
       \/ op.name = "reindex" /\ open_error(pre, op.fault) = ""
ProbeFailed == op.name = "init" /\ op.fault = "probe" /\ pre.lance_dir
BreakdownFailed == op.name = "stats" /\ op.fault = "breakdown" /\ pre.knowledge

\* C17: no error is silently swallowed: whenever the full-text index creation
\* of init or reindex, the per-source breakdown of stats or the
\* existing-table probe of init fails, the result has status error or carries
\* a field that reports the failure.
C17_NoSilentSwallow ==
    (FtsStepFailed \/ ProbeFailed \/ BreakdownFailed)
        => \/ result.status = "error"
           \/ result.fts_index = "failed"
           \/ op.name = "reindex" /\ ~result.fts_index_created

\* C18: if the full-text index creation fails during init, init still
\* returns status ok, the knowledge table exists afterwards (a later init
\* reports already_exists and an ingest adds records), and the failure is
\* reported in the result's fts_index field.
C18_FtsFailureTolerated ==
    (op.name = "init" /\ FtsStepFailed)
        => /\ result.status = "ok"
           /\ Initialized(db)
           /\ result.fts_index = "failed"
           /\ \A k \in BOOLEAN :
                 LET again == init_knowledge_base(db, next_id, k, "none")
                 IN again.res.status = "ok" /\ again.res.already_exists
           /\ LET added == ingest_document(db, next_id, <<"doc.txt">>, <<"a">>,
                                            1, 0, TRUE, "none")
              IN added.res.status = "ok" /\ added.db.rows # {}

C18_Witness ==
    /\ op.name = "init" /\ op.fault = "fts" /\ result.status = "ok"
    /\ Initialized(db) /\ ~db.fts /\ ~Initialized(pre)

\* C19: every Initialized knowledge base (a knowledge table exists) owns a
\* full-text index over text, after any sequence of operations and whichever
\* operation created the table.
C19_InitializedHasFts == Initialized(db) => db.fts

SearchDone == op.name = "search" /\ result.status = "ok"

\* the rows of the searched store that the search ranks and that satisfy the
\* filter of the call
C21_Satisfying ==
    sql_select(op.filter, search_candidates(op.target, op.text, pre.rows)).rows

\* C21: a search with a filter and a limit filters before it truncates: it
\* returns at most `limit` records, each satisfies the filter, exactly `limit`
\* when at least that many ranked records satisfy it, and no satisfying
\* record left out ranks before a returned one.
C21_FilterBeforeLimit ==
    (SearchDone /\ op.filter # <<>>) =>
        LET res == result.results
            ids == {res[k].id : k \in 1..Len(res)}
        IN /\ Len(res) <= op.limit
           /\ \A k \in 1..Len(res) :
                  /\ \E r \in C21_Satisfying : r.id = res[k].id
                  /\ sql_select(op.filter, {res[k]}).rows = {res[k]}
           /\ Cardinality(C21_Satisfying) >= op.limit => Len(res) = op.limit
           /\ Cardinality(ids) = Len(res)
           /\ \A r \in C21_Satisfying :
                  r.id \notin ids =>
                      \A k \in 1..Len(res) : op.dist[res[k].id] <= op.dist[r.id]

\* a search returned `limit` records although a record that fails the filter
\* ranks before the first of them
C21_Witness ==
    /\ SearchDone
    /\ op.filter # <<>>
    /\ Len(result.results) = op.limit
    /\ \E r \in pre.rows :
          /\ r \notin C21_Satisfying
          /\ op.dist[r.id] < op.dist[result.results[1].id]

\* ---------------------------------------------------------------------- C22
\* a search of an Initialized store without rows, in a mode whose credential
\* requirement is met, over a connection that works
C22_EmptySearch ==
    /\ op.name = "search"
    /\ Initialized(pre) /\ pre.rows = {}
    /\ op.key \/ ~needs_key(op.target)
    /\ op.fault # "engine"

\* C22: a search of an Initialized store with zero rows returns status ok with
\* an empty results list, whether or not a call of the embedding provider
\* would succeed: it makes none.
C22_EmptyStoreSearch ==
    C22_EmptySearch =>
        /\ result.status = "ok"
        /\ result.results = <<>>
        /\ result.message = "Knowledge base is empty"
        /\ \A f \in {"none", "provider", "embed"} :
              search_knowledge(pre, next_id, op.text, op.target, op.limit,
                               op.filter, op.dist, op.key, f).res = result

\* an empty store was searched in vector mode while the embedding provider
\* was failing
C22_Witness ==
    /\ C22_EmptySearch
    /\ op.target = "vector" /\ op.fault = "embed"
    /\ result.status = "ok"

\* ---------------------------------------------------------------------- C23
\* the words of a text, as the text holds them
words_of(t) == {split(t)[k] : k \in 1..Len(split(t))}

\* C23: after a successful ingest, an immediate full-text search for any word
\* of the ingested text returns, among its results, the id of a chunk that
\* contains that word.
C23_RoundTrip ==
    (op.name = "ingest" /\ result.status = "ok") =>
        \A w \in words_of(op.text), dist \in Dists :
            LET found == search_knowledge(db, next_id, w, "fts", DefaultLimit,
                                          <<>>, dist, op.key, "none").res
            IN /\ found.status = "ok"
               /\ \E k \in 1..Len(found.results) :
                     \E r \in db.rows :
                         /\ r.id = found.results[k].id
                         /\ w \in words_of(r.text)

\* ---------------------------------------------------------------------- C24
\* C24: in vector mode the score decreases with the distance: of two results
\* with different distances the closer one has the strictly higher score, and
\* no score is negative.
C24_ScoreDecreasing ==
    op.name = "score" =>
        \A j, k \in 1..Len(result.results) :
            /\ result.results[k].score >= 0
            /\ op.dist[j] < op.dist[k]
                   => result.results[j].score > result.results[k].score

\* ---------------------------------------------------------------------- C25
\* the fields of the stored records the claim names
C25_Records(d) ==
    {[id |-> r.id, text |-> r.text, source_file |-> r.source_file,
      chunk_index |-> r.chunk_index] : r \in d.rows}

\* C25: reindex, stats, versions, search and view leave the stored records as
\* they were (ids, text, source_file, chunk_index); stats, versions, search
\* and view also leave the version and the Initialized state as they were.
C25_ReadOnlyFrame ==
    /\ op.name \in {"reindex", "stats", "versions", "search", "view"}
           => C25_Records(db) = C25_Records(pre)
    /\ op.name \in {"stats", "versions", "search", "view"}
           => /\ db.version = pre.version
              /\ Initialized(db) = Initialized(pre)

\* a reindex of a store holding records committed new versions
C25_Witness ==
    /\ op.name = "reindex"
    /\ result.status = "ok"
    /\ pre.rows # {}
    /\ db.version > pre.version
    /\ C25_Records(db) = C25_Records(pre)

\* ---------------------------------------------------------------------- C29
\* the records a successful ingest added
C29_Added == db.rows \ pre.rows

\* C29: a successful ingest of a text that chunks into k >= 1 chunks appends,
\* in one store write (one new version), exactly k records whose chunk_index
\* values are 0..k-1 in chunk order, all with the given source_file, page 1
\* and the same created_at, with pairwise distinct fresh ids, and reports
\* chunks_added = k and total_rows = previous row count + k.
C29_IngestAppends ==
    (op.name = "ingest" /\ result.status = "ok") =>
        LET cs == chunk_text(op.text, 1, 0)
            k == Len(cs)
        IN /\ k >= 1
           /\ pre.rows \subseteq db.rows
           /\ Cardinality(C29_Added) = k
           /\ \A j \in 0..(k - 1) :
                 \E r \in C29_Added : r.chunk_index = j /\ r.text = cs[j + 1]
           /\ \A r \in C29_Added :
                 /\ r.source_file = op.target
                 /\ r.page = 1
                 /\ r.id \notin {q.id : q \in pre.rows}
           /\ \A r, q \in C29_Added :
                 /\ r.created_at = q.created_at
                 /\ r.id = q.id => r = q
           /\ db.version = (IF Initialized(pre) THEN pre.version ELSE 1) + 1
           /\ Len(db.history) = (IF Initialized(pre) THEN Len(pre.history) ELSE 1) + 1
           /\ result.chunks_added = k
           /\ result.total_rows = Cardinality(pre.rows) + k
           /\ result.version = db.version

\* an ingest added the two chunks of a text to an Initialized store
C29_Witness ==
    /\ op.name = "ingest" /\ result.status = "ok"
    /\ Initialized(pre)
    /\ Cardinality(C29_Added) = 2
    /\ result.chunks_added = 2

\* ---------------------------------------------------------------------- C30
\* an init that returned status error because the credential is missing or
\* the embedding provider failed
C30_Unresolved ==
    /\ op.name = "init"
    /\ result.status = "error"
    /\ result.error \in {E_NoKey, E_Provider}

\* C30: init resolves the credential and the embedding dimensions before it
\* creates the table: an init that fails on a missing credential or on the
\* provider creates no table, so on a workspace that was not Initialized no
\* knowledge table exists afterwards and a later init with a valid
\* configuration creates the store instead of reporting already_exists.
C30_ResolveBeforeCreate ==
    /\ (op.name = "init" /\ ~Initialized(pre)
        /\ (~op.key \/ op.fault = "provider")
        /\ op.fault \notin {"dim", "mkdir"})
           => C30_Unresolved
    /\ C30_Unresolved =>
           /\ Initialized(db) = Initialized(pre)
           /\ db.rows = pre.rows /\ db.version = pre.version
           /\ ~Initialized(pre) =>
                  LET later == init_knowledge_base(db, next_id, TRUE, "none")
                  IN /\ ~db.knowledge
                     /\ later.res.status = "ok"
                     /\ ~later.res.already_exists
                     /\ Initialized(later.db) /\ later.db.version >= 1

\* an init failed on the provider in a workspace without a store and left
\* the .lance directory behind
C30_Witness ==
    /\ C30_Unresolved
    /\ op.fault = "provider"
    /\ ~pre.lance_dir /\ db.lance_dir /\ ~Initialized(db)

\* ---------------------------------------------------------------------- C26
\* C26: in dry-run mode process_file writes to no file: the content of every
\* file stays what it was, while files_modified and the import, hook and t()
\* counters are updated as a live run over the same files updates them.
C26_DryRunWritesNothing ==
    DRY_RUN =>
        /\ disk = disk0
        /\ stats = main_loop(done, disk0, Stats0, FALSE).stats

\* a dry run went over two files with i18n usage and counted both as modified
C26_Witness ==
    /\ DRY_RUN
    /\ todo = <<>>
    /\ stats.files_modified = 2
    /\ stats.t_calls_replaced >= 1
    /\ main_loop(done, disk0, Stats0, FALSE).disk # disk0

\* ---------------------------------------------------------------------- C27
\* C27: when delete_by_source or delete_by_id runs at the same time as another
\* invocation that adds or removes records in the same workspace, the count it
\* reports (deleted_chunks, deleted) still equals the number of records this
\* call removed, and deleted_chunks is never negative.
C27_DeleteCountExact ==
    \A p \in Procs :
        (procs # <<>> /\ procs[p].pc = "done" /\ procs[p].result.status = "ok") =>
            /\ procs[p].call.name = "delete" =>
                   /\ procs[p].result.deleted_chunks = procs[p].removed
                   /\ procs[p].result.deleted_chunks >= 0
            /\ procs[p].call.name = "delete-id" =>
                   procs[p].result.deleted = (procs[p].removed > 0)

\* ---------------------------------------------------------------------- C28
\* two runs that both finished, on a workspace that was Uninitialized, each an
\* init or an ingest and at least one an init
C28_Raced ==
    /\ procs # <<>>
    /\ ~Initialized(pre)
    /\ \A p \in Procs :
          procs[p].pc = "done" /\ procs[p].call.name \in {"init", "ingest"}
    /\ \E p \in Procs : procs[p].call.name = "init"

\* C28: two init invocations racing on the same Uninitialized workspace both
\* return status ok, one having created the table and the other reporting
\* already_exists, and one knowledge table exists afterwards; the same holds
\* for an init racing with an ingest that creates the table.
C28_InitRace ==
    C28_Raced =>
        /\ \A p \in Procs : procs[p].result.status = "ok"
        /\ Initialized(db)
        /\ (\A p \in Procs : procs[p].call.name = "init") =>
               \E p, q \in Procs :
                   /\ p # q
                   /\ procs[p].result.already_exists
                   /\ ~procs[q].result.already_exists

====
